---- MODULE Spec2Model ----
(***************************************************************************)
(* Model of the two point-cloud scripts of ShiibaNFTUnity:                 *)
(*   - the Blender importer  (src/blender/script 3edc5d7324.py)            *)
(*   - the PLY inspector     (.../PLY_WithMotion/plyreaed.py)              *)
(* Bytes are integers 0..255, a file is a sequence of bytes, a float32 is  *)
(* its IEEE-754 fields [s, e, m] (sign, biased exponent, 23-bit fraction). *)
(***************************************************************************)
EXTENDS Integers, Sequences, FiniteSets, TLC

VARIABLES
    \* ---- importer ----
    pc,          \* position in the importer script
    file,        \* the file at ply_path: [exists, bytes]
    objects,     \* bpy.data.objects: set of [name, mesh, data, linked]
    meshes,      \* bpy.data.meshes: set of datablock names
    handles,     \* open file handles: set of [id, pos]
    line,        \* local `line`
    header_end,  \* local `header_end`
    data,        \* local `data` (structured array) ; n = Len(data)
    obj,         \* local `obj`: the name of the object this run created
    runs,        \* number of importer runs started in this Blender session
    \* ---- inspector ----
    ipc,         \* position in the inspector script
    argv,        \* sys.argv
    plyfile,     \* what PlyData.read finds at the path: [kind, vertex]
    num_line,    \* local `num_line`
    ply,         \* local `ply` (its 'vertex' data)
    it,          \* number of records the for loop has consumed
    exitcode,    \* process exit status (meaningful once ipc = "exited")
    \* ---- both ----
    stdout,      \* lines printed so far
    error        \* the uncaught exception that ended the run, None if none

vars == <<pc, file, objects, meshes, handles, line, header_end, data, obj, runs,
          ipc, argv, plyfile, num_line, ply, it, exitcode, stdout, error>>

impVars  == <<pc, file, objects, meshes, handles, line, header_end, data, obj, runs>>
inspVars == <<ipc, argv, plyfile, num_line, ply, it, exitcode>>

None    == "None"
\* no file at ply_path
Missing == [exists |-> FALSE, bytes |-> <<>>]

\* ------------------------------------------------------------------ bounds
MaxRecords == 2     \* most records in a generated file body
MaxRuns    == 2     \* most importer runs in one Blender session
MaxVertices == 10   \* most vertex records in a file given to the inspector

\* ------------------------------------------------------------- sequences
Min(S) == CHOOSE x \in S : \A y \in S : x <= y

RECURSIVE Concat(_)
Concat(ss) == IF ss = <<>> THEN <<>> ELSE Head(ss) \o Concat(Tail(ss))

RECURSIVE Sum(_)
Sum(s) == IF s = <<>> THEN 0 ELSE Head(s) + Sum(Tail(s))

\* All sequences over S of length 0..k
SeqsUpTo(S, k) == UNION {[1..m -> S] : m \in 0..k}

\* ------------------------------------------------------------ bytes, text
\* bytes.strip() with no argument removes leading and trailing ASCII
\* whitespace: space, \t, \n, \r, \x0b, \x0c
Whitespace == {9, 10, 11, 12, 13, 32}

strip(b) ==
    LET keep == {i \in 1..Len(b) : b[i] \notin Whitespace}
    IN  IF keep = {} THEN <<>>
        ELSE SubSeq(b, Min(keep), CHOOSE j \in keep : \A k \in keep : k <= j)

\* b'end_header'
end_header == <<101, 110, 100, 95, 104, 101, 97, 100, 101, 114>>

\* mutant of IsSentinel: the token anywhere in the line (b'end_header' in line)
ContainsSentinel(l) ==
    \E i \in 0..(Len(l) - Len(end_header)) :
        SubSeq(l, i + 1, i + Len(end_header)) = end_header

\* line 15: line.strip() == b'end_header'
IsSentinel(l) == strip(l) = end_header

\* f.readline() on a binary handle at offset pos: the bytes up to and
\* including the next b'\n', or up to end of file; b'' at end of file.
readline(f, pos) ==
    LET nl == {j \in (pos + 1)..Len(f) : f[j] = 10}
        e  == IF nl = {} THEN Len(f) ELSE Min(nl)
    IN  SubSeq(f, pos + 1, e)

\* ---------------------------------------------------------------- dtype
\* mutant of dt: the same fields laid out as a C struct (align=True), which
\* puts one pad byte after blue
dt_aligned ==
    << [name |-> "x",     kind |-> "<f4", size |-> 4],
       [name |-> "y",     kind |-> "<f4", size |-> 4],
       [name |-> "z",     kind |-> "<f4", size |-> 4],
       [name |-> "red",   kind |-> "u1",  size |-> 1],
       [name |-> "green", kind |-> "u1",  size |-> 1],
       [name |-> "blue",  kind |-> "u1",  size |-> 1],
       [name |-> "pad",   kind |-> "u1",  size |-> 1],
       [name |-> "vx",    kind |-> "<f4", size |-> 4],
       [name |-> "vy",    kind |-> "<f4", size |-> 4],
       [name |-> "vz",    kind |-> "<f4", size |-> 4] >>

\* lines 20-24: np.dtype([...]), packed (align=False), in field order
dt == << [name |-> "x",     kind |-> "<f4", size |-> 4],
         [name |-> "y",     kind |-> "<f4", size |-> 4],
         [name |-> "z",     kind |-> "<f4", size |-> 4],
         [name |-> "red",   kind |-> "u1",  size |-> 1],
         [name |-> "green", kind |-> "u1",  size |-> 1],
         [name |-> "blue",  kind |-> "u1",  size |-> 1],
         [name |-> "vx",    kind |-> "<f4", size |-> 4],
         [name |-> "vy",    kind |-> "<f4", size |-> 4],
         [name |-> "vz",    kind |-> "<f4", size |-> 4] >>

FieldNames == {"x", "y", "z", "red", "green", "blue", "vx", "vy", "vz"}

itemsize(d) == Sum([k \in 1..Len(d) |-> d[k].size])

FieldIndex(d, nm) == CHOOSE k \in 1..Len(d) : d[k].name = nm

FieldOffset(d, k) == Sum([j \in 1..(k - 1) |-> d[j].size])

\* '<f4': little-endian IEEE-754 binary32, as its fields
F32LE(b) == [s |-> b[4] \div 128,
             e |-> (b[4] % 128) * 2 + b[3] \div 128,
             m |-> (b[3] % 128) * 65536 + b[2] * 256 + b[1]]

DecodeField(kind, b) == IF kind = "u1" THEN b[1] ELSE F32LE(b)

\* one array item from its itemsize bytes
DecodeItem(d, b) ==
    [nm \in FieldNames |->
        LET k == FieldIndex(d, nm)
        IN  DecodeField(d[k].kind,
                        SubSeq(b, FieldOffset(d, k) + 1,
                                  FieldOffset(d, k) + d[k].size))]

\* np.fromfile(f, dtype=d) with count=-1 on a handle at offset pos: the
\* item count is the remaining byte count divided by the item size,
\* rounded down; the items are read back to back.
fromfile(f, pos, d) ==
    LET sz    == itemsize(d)
        count == (Len(f) - pos) \div sz
    IN  [i \in 1..count |->
            DecodeItem(d, SubSeq(f, pos + (i - 1) * sz + 1, pos + i * sz))]


\* -------------------------------------------------------------- float32
F32Zero == [s |-> 0, e |-> 0,   m |-> 0]
F32One  == [s |-> 0, e |-> 127, m |-> 0]

\* numerator scaled into [d, 2d): the quotient's exponent is -k
RECURSIVE ScaleUp(_, _, _)
ScaleUp(c, d, k) == IF c >= d THEN [c |-> c, k |-> k] ELSE ScaleUp(2 * c, d, k + 1)

\* nbits more quotient bits of r/d by long division (r < d)
RECURSIVE LongDiv(_, _, _, _)
LongDiv(r, d, nbits, acc) ==
    IF nbits = 0 THEN [q |-> acc, r |-> r]
    ELSE LET r2 == 2 * r
         IN  IF r2 >= d THEN LongDiv(r2 - d, d, nbits - 1, 2 * acc + 1)
                        ELSE LongDiv(r2,     d, nbits - 1, 2 * acc)

\* (c / d).astype(np.float32) for integers 0 <= c <= d: the quotient rounded
\* to nearest, ties to even, on a 24-bit significand.  (The float64
\* intermediate of c / 255.0 never sits on a binary32 midpoint, so rounding
\* the exact quotient once gives the same binary32.)
fdiv32(c, d) ==
    IF c = 0 THEN F32Zero
    ELSE LET sc   == ScaleUp(c, d, 0)
             ld   == LongDiv(sc.c - d, d, 23, 0)
             up   == (2 * ld.r > d) \/ (2 * ld.r = d /\ ld.q % 2 = 1)
             frac == IF up THEN ld.q + 1 ELSE ld.q
         IN  IF frac = 8388608
                 THEN [s |-> 0, e |-> 127 - sc.k + 1, m |-> 0]
                 ELSE [s |-> 0, e |-> 127 - sc.k,     m |-> frac]

\* the divisor of lines 51-53
ColorScale == 255

\* mutant of normalize: scale by 256 (a power of two) instead of 255
normalize256(c) == fdiv32(c, 256)

\* data[channel] / 255.0, cast to float32
normalize(c) == fdiv32(c, ColorScale)

\* ----------------------------------------------------------- input files
ply_line    == <<112, 108, 121, 10>>
format_line == <<102, 111, 114, 109, 97, 116, 32, 98, 105, 110, 97, 114, 121,
                 95, 108, 105, 116, 116, 108, 101, 95, 101, 110, 100, 105, 97,
                 110, 32, 49, 46, 48, 10>>
\* b"comment end_header\n": holds the token, is not the sentinel
comment_line  == <<99, 111, 109, 109, 101, 110, 116, 32>> \o end_header \o <<10>>
\* b" end_header \r\n": the sentinel with surrounding whitespace
padded_line   == <<32>> \o end_header \o <<32, 13, 10>>
\* b"end_headers\n": not the sentinel
plural_line   == end_header \o <<115, 10>>
sentinel_line == end_header \o <<10>>

Headers ==
    { ply_line \o format_line \o sentinel_line,     \* the usual header
      sentinel_line,                                \* nothing but the sentinel
      ply_line \o comment_line \o padded_line,      \* stripped match, after a near miss
      ply_line \o sentinel_line \o sentinel_line,   \* two sentinels
      ply_line \o end_header,                       \* sentinel with no newline
      ply_line \o plural_line,                      \* no sentinel
      <<>> }                                        \* no header at all

\* two sample records of the 27-byte layout:
\*   1.0, -2.0, 0.5 | 0, 255, 128 | 0.25, -1.0, 3.0
\*   position bytes spelling b"\nend_header\n" | 255, 1, 0 | 0x04030201, 0.1, 0.0
SampleRecords ==
    { <<0, 0, 128, 63, 0, 0, 0, 192, 0, 0, 0, 63, 0, 255, 128,
        0, 0, 128, 62, 0, 0, 128, 191, 0, 0, 64, 64>>,
      <<10, 101, 110, 100, 95, 104, 101, 97, 100, 101, 114, 10, 255, 1, 0,
        1, 2, 3, 4, 205, 204, 204, 61, 0, 0, 0, 0>> }

\* trailing bytes after the last whole record: none, one, one short of a record
Tails == { <<>>, <<7>>,
           <<3, 0, 0, 0, 0, 0, 0, 0, 0, 0, 0, 0, 0, 0, 0, 0, 0, 0, 0, 0, 0, 0, 0, 0, 0, 9>> }

Bodies == { Concat(rs) \o t : rs \in SeqsUpTo(SampleRecords, MaxRecords), t \in Tails }

Files == { [exists |-> TRUE, bytes |-> h \o b] : h \in Headers, b \in Bodies }
         \cup {Missing}

\* ------------------------------------------------------------ host scene
Name(base, k) == [base |-> base, k |-> k]   \* k = 0: no ".00k" suffix

\* the name Blender gives a new datablock: the requested one, or the first
\* free numbered one when it is taken
UniqueName(base, taken) ==
    IF Name(base, 0) \notin taken THEN Name(base, 0)
    ELSE Name(base, Min({k \in 1..(Cardinality(taken) + 1) : Name(base, k) \notin taken}))

EmptyMesh == [verts |-> <<>>, edges |-> <<>>, faces |-> <<>>, attrs |-> {}]

Cube == [name |-> Name("Cube", 0), mesh |-> Name("Cube", 0),
         data |-> [EmptyMesh EXCEPT !.verts = << <<F32One, F32One, F32One>> >>],
         linked |-> TRUE]

\* an object left by an earlier session
OldPointCloud == [name |-> Name("PointCloud", 0), mesh |-> Name("PointCloudMesh", 0),
                  data |-> [EmptyMesh EXCEPT !.verts = << <<F32Zero, F32Zero, F32Zero>> >>],
                  linked |-> TRUE]

InitObjects == { {}, {Cube}, {Cube, OldPointCloud} }

Named(objs, base) == {o \in objs : o.name = Name(base, 0)}

\* mutant of RemoveExisting: the removal is skipped
RemoveNothing(objs) == objs

\* lines 8-9: bpy.data.objects.remove(bpy.data.objects["PointCloud"], do_unlink=True)
RemoveExisting(objs) ==
    IF Named(objs, "PointCloud") # {} THEN objs \ Named(objs, "PointCloud") ELSE objs

\* -------------------------------------------------------------- handles
Handle(id) == CHOOSE h \in handles : h.id = id

\* mutant of CloseHandle: the handle is left open
LeaveOpen(hs, id) == hs

\* leaving a `with open(...)` block
CloseHandle(hs, id) == {h \in hs : h.id # id}


\* ------------------------------------------------------- importer script
\* colors.ravel(): the n x 4 array flattened row by row
ravel(rows) == Concat(rows)

\* attr.data.foreach_set(prop, flat): element i takes the next `width` values
foreach_set(flat, width) ==
    [i \in 1..(Len(flat) \div width) |->
        SubSeq(flat, (i - 1) * width + 1, i * width)]

\* lines 43-44: np.stack([x, y, z], axis=1).tolist()
positions(d) == [i \in 1..Len(d) |-> <<d[i].x, d[i].y, d[i].z>>]

\* lines 50-55: np.stack([red/255, green/255, blue/255, ones(n)], axis=1)
colors(d) == [i \in 1..Len(d) |->
                <<normalize(d[i].red), normalize(d[i].green),
                  normalize(d[i].blue), F32One>>]

\* lines 49-61: the four per-point attributes
Attributes(d) ==
    { [name |-> "color", type |-> "FLOAT_COLOR", domain |-> "POINT",
       values |-> foreach_set(ravel(colors(d)), 4)] }
    \cup
    { [name |-> nm, type |-> "FLOAT", domain |-> "POINT",
       values |-> [i \in 1..Len(d) |-> d[i][nm]]] : nm \in {"vx", "vy", "vz"} }

NoObject == Name("", 0)

Locals == /\ line = <<>> /\ header_end = 0 /\ data = <<>> /\ obj = NoObject
          /\ handles = {} /\ stdout = <<>> /\ error = None

InspIdle == /\ ipc = "idle" /\ argv = <<>> /\ plyfile = [kind |-> "unreadable", vertex |-> <<>>]
            /\ num_line = 0 /\ ply = <<>> /\ it = 0 /\ exitcode = 0

Init == /\ pc = "remove"
        /\ file \in Files
        /\ objects \in InitObjects
        /\ meshes = {o.mesh : o \in objects}
        /\ runs = 1
        /\ Locals
        /\ InspIdle

\* lines 8-9
RemoveStep ==
    /\ pc = "remove"
    /\ objects' = RemoveExisting(objects)
    /\ pc' = "open1"
    /\ UNCHANGED <<file, meshes, handles, line, header_end, data, obj, runs,
                   stdout, error, inspVars>>

\* lines 13-14: open(ply_path, 'rb') and line = b''
Open1 ==
    /\ pc = "open1"
    /\ IF ~file.exists
          THEN /\ error' = "FileNotFoundError"
               /\ pc' = "failed"
               /\ UNCHANGED <<handles, line>>
          ELSE /\ handles' = handles \cup {[id |-> 1, pos |-> 0]}
               /\ line' = <<>>
               /\ pc' = "scan_test"
               /\ UNCHANGED error
    /\ UNCHANGED <<file, objects, meshes, header_end, data, obj, runs, stdout, inspVars>>

\* line 15: while line.strip() != b'end_header'
ScanTest ==
    /\ pc = "scan_test"
    /\ pc' = IF ~IsSentinel(line) THEN "scan_read" ELSE "tell"
    /\ UNCHANGED <<file, objects, meshes, handles, line, header_end, data, obj,
                   runs, stdout, error, inspVars>>

\* line 16: line = f.readline()
ScanRead ==
    /\ pc = "scan_read"
    /\ LET h == Handle(1)
           l == readline(file.bytes, h.pos)
       IN  /\ line' = l
           /\ handles' = (handles \ {h}) \cup {[h EXCEPT !.pos = h.pos + Len(l)]}
    /\ pc' = "scan_test"
    /\ UNCHANGED <<file, objects, meshes, header_end, data, obj, runs, stdout,
                   error, inspVars>>

\* line 17: header_end = f.tell(), and the end of the first with block
Tell ==
    /\ pc = "tell"
    /\ header_end' = Handle(1).pos
    /\ handles' = CloseHandle(handles, 1)
    /\ pc' = "open2"
    /\ UNCHANGED <<file, objects, meshes, line, data, obj, runs, stdout, error,
                   inspVars>>

\* lines 27-28: open(ply_path, 'rb') and f.seek(header_end)
Open2 ==
    /\ pc = "open2"
    /\ handles' = handles \cup {[id |-> 2, pos |-> header_end]}
    /\ pc' = "fromfile"
    /\ UNCHANGED <<file, objects, meshes, line, header_end, data, obj, runs,
                   stdout, error, inspVars>>

\* line 29: data = np.fromfile(f, dtype=dt), and the end of the second with block
FromFile ==
    /\ pc = "fromfile"
    /\ data' = fromfile(file.bytes, Handle(2).pos, dt)
    /\ handles' = CloseHandle(handles, 2)
    /\ pc' = "print"
    /\ UNCHANGED <<file, objects, meshes, line, header_end, obj, runs, stdout,
                   error, inspVars>>

\* lines 31-35: n = len(data) and the four prints; data[...][0] raises
\* IndexError on an empty array, after "Loaded 0 points" is printed
PrintSummary ==
    /\ pc = "print"
    /\ LET n == Len(data)
       IN  IF n = 0
              THEN /\ stdout' = stdout \o << [kind |-> "loaded", n |-> n] >>
                   /\ error' = "IndexError"
                   /\ pc' = "failed"
              ELSE /\ stdout' = stdout \o
                        << [kind |-> "loaded", n |-> n],
                           [kind |-> "first point", v |-> <<data[1].x, data[1].y, data[1].z>>],
                           [kind |-> "first color", v |-> <<data[1].red, data[1].green, data[1].blue>>],
                           [kind |-> "first velocity", v |-> <<data[1].vx, data[1].vy, data[1].vz>>] >>
                   /\ pc' = "mesh"
                   /\ UNCHANGED error
    /\ UNCHANGED <<file, objects, meshes, handles, line, header_end, data, obj,
                   runs, inspVars>>

\* lines 38-45: the mesh datablock, the object, its link to the scene, and
\* mesh.from_pydata(positions, [], [])
CreateMesh ==
    /\ pc = "mesh"
    /\ LET mname == UniqueName("PointCloudMesh", meshes)
           oname == UniqueName("PointCloud", {o.name : o \in objects})
       IN  /\ meshes' = meshes \cup {mname}
           /\ objects' = objects \cup
                  { [name |-> oname, mesh |-> mname, linked |-> TRUE,
                     data |-> [EmptyMesh EXCEPT !.verts = positions(data)]] }
           /\ obj' = oname
    /\ pc' = "attrs"
    /\ UNCHANGED <<file, handles, line, header_end, data, runs, stdout, error,
                   inspVars>>

\* lines 49-64: the color attribute, the three velocity attributes, the
\* closing prints
AddAttributes ==
    /\ pc = "attrs"
    /\ LET o == CHOOSE o \in objects : o.name = obj
       IN  objects' = (objects \ {o}) \cup
                        {[o EXCEPT !.data.attrs = Attributes(data)]}
    /\ stdout' = stdout \o << [kind |-> "completed"] >>
    /\ pc' = "done"
    /\ UNCHANGED <<file, meshes, handles, line, header_end, data, obj, runs,
                   error, inspVars>>

\* the script is run again in the same Blender session, on whatever the
\* file at ply_path now holds, with fresh script locals
Rerun ==
    /\ pc \in {"done", "failed"}
    /\ runs < MaxRuns
    /\ runs' = runs + 1
    /\ file' \in Files
    /\ pc' = "remove"
    /\ line' = <<>> /\ header_end' = 0 /\ data' = <<>> /\ obj' = NoObject
    /\ stdout' = <<>> /\ error' = None
    /\ UNCHANGED <<objects, meshes, handles, inspVars>>

Next == \/ RemoveStep \/ Open1 \/ ScanTest \/ ScanRead \/ Tell \/ Open2
        \/ FromFile \/ PrintSummary \/ CreateMesh \/ AddAttributes \/ Rerun

Spec == Init /\ [][Next]_vars

\* a started script keeps executing: every step of a run is eventually taken;
\* running the script again is up to the user
Step == \/ RemoveStep \/ Open1 \/ ScanTest \/ ScanRead \/ Tell \/ Open2
        \/ FromFile \/ PrintSummary \/ CreateMesh \/ AddAttributes

FairSpec == Init /\ [][Next]_vars /\ WF_vars(Step)


\* ------------------------------------------------------ inspector script
\* command-line arguments are sequences of characters
Digits == [c \in {"0", "1", "2", "3", "4", "5", "6", "7", "8", "9"} |->
            CASE c = "0" -> 0 [] c = "1" -> 1 [] c = "2" -> 2 [] c = "3" -> 3
              [] c = "4" -> 4 [] c = "5" -> 5 [] c = "6" -> 6 [] c = "7" -> 7
              [] c = "8" -> 8 [] c = "9" -> 9]

IsDigits(cs) == cs # <<>> /\ \A i \in 1..Len(cs) : cs[i] \in DOMAIN Digits

RECURSIVE DigitsValue(_, _)
DigitsValue(cs, acc) ==
    IF cs = <<>> THEN acc ELSE DigitsValue(Tail(cs), 10 * acc + Digits[Head(cs)])

\* int(s) accepts an optional sign followed by decimal digits
IsIntLiteral(cs) ==
    /\ cs # <<>>
    /\ IF Head(cs) \in {"-", "+"} THEN IsDigits(Tail(cs)) ELSE IsDigits(cs)

int(cs) == IF Head(cs) = "-" THEN 0 - DigitsValue(Tail(cs), 0)
           ELSE IF Head(cs) = "+" THEN DigitsValue(Tail(cs), 0)
           ELSE DigitsValue(cs, 0)

\* line 10: the count used when argv has no third element
DefaultNumLines == 5

\* mutant of slice_to: the stop index taken as inclusive (one item more)
slice_to_inclusive(seq, k) ==
    LET n    == Len(seq)
        stop == IF k >= 0 THEN (IF k + 1 < n THEN k + 1 ELSE n)
                          ELSE (IF n + k + 1 > 0 THEN n + k + 1 ELSE 0)
    IN  SubSeq(seq, 1, stop)

\* seq[:k]: the first k items for k >= 0, all but the last -k for k < 0
slice_to(seq, k) ==
    LET n    == Len(seq)
        stop == IF k >= 0 THEN (IF k < n THEN k ELSE n)
                          ELSE (IF n + k > 0 THEN n + k ELSE 0)
    IN  SubSeq(seq, 1, stop)

\* mutant of ArgMissing: the check lets a bare program name through
ArgMissingNever(av) == Len(av) < 1

\* line 5: len(sys.argv) < 2
ArgMissing(av) == Len(av) < 2

ProgArg == <<"r", "e", "a", "d">>
FileArg == <<"a", ".", "p", "l", "y">>
NumArgs  == { <<"2">>, <<"0">>, <<"7">>, <<"1", "2">>, <<"+", "3">>, <<"-", "1">>,
              <<"-", "1", "2">>, <<"x">>, <<"2", ".", "5">> }

Argvs == { <<ProgArg>>, <<ProgArg, FileArg>> }
         \cup { <<ProgArg, FileArg, n>> : n \in NumArgs }
         \cup { <<ProgArg, FileArg, <<"2">>, <<"x">> >> }

\* vertex records are told apart by an integer; files list them in
\* ascending or descending order
PlyFiles ==
    { [kind |-> "unreadable", vertex |-> <<>>], [kind |-> "novertex", vertex |-> <<>>] }
    \cup { [kind |-> "ok", vertex |-> [i \in 1..n |-> 100 + i]] : n \in 0..MaxVertices }
    \cup { [kind |-> "ok", vertex |-> [i \in 1..n |-> 200 - i]] : n \in 1..MaxVertices }

ImporterIdle == /\ pc = "idle" /\ file = Missing /\ objects = {} /\ meshes = {}
                /\ runs = 0 /\ Locals

InspInit == /\ ipc = "argcheck"
            /\ argv \in Argvs
            /\ plyfile \in PlyFiles
            /\ num_line = 0 /\ ply = <<>> /\ it = 0 /\ exitcode = 0
            /\ ImporterIdle

\* lines 5-7
ArgCheck ==
    /\ ipc = "argcheck"
    /\ IF ArgMissing(argv)
          THEN /\ stdout' = stdout \o << [kind |-> "usage"] >>
               /\ exitcode' = 1
               /\ ipc' = "exited"
          ELSE /\ ipc' = "args"
               /\ UNCHANGED <<stdout, exitcode>>
    /\ UNCHANGED <<argv, plyfile, num_line, ply, it, error, impVars>>

\* lines 9-12; sys.argv[1] raises IndexError when there is no such element,
\* int() raises ValueError on a non-integer
ParseArgs ==
    /\ ipc = "args"
    /\ IF Len(argv) < 2
          THEN /\ error' = "IndexError" /\ exitcode' = 1 /\ ipc' = "exited"
               /\ UNCHANGED <<num_line, stdout>>
          ELSE IF Len(argv) > 2 /\ ~IsIntLiteral(argv[3])
          THEN /\ error' = "ValueError" /\ exitcode' = 1 /\ ipc' = "exited"
               /\ UNCHANGED <<num_line, stdout>>
          ELSE /\ num_line' = IF Len(argv) > 2 THEN int(argv[3]) ELSE DefaultNumLines
               /\ stdout' = stdout \o << [kind |-> "reading", filename |-> argv[2]] >>
               /\ ipc' = "read"
               /\ UNCHANGED <<error, exitcode>>
    /\ UNCHANGED <<argv, plyfile, ply, it, impVars>>

\* line 14: PlyData.read(filename) raises on a missing or malformed file
ReadPly ==
    /\ ipc = "read"
    /\ IF plyfile.kind = "unreadable"
          THEN /\ error' = "PlyReadError" /\ exitcode' = 1 /\ ipc' = "exited"
               /\ UNCHANGED ply
          ELSE /\ ply' = plyfile.vertex
               /\ ipc' = "dtype"
               /\ UNCHANGED <<error, exitcode>>
    /\ UNCHANGED <<argv, plyfile, num_line, it, stdout, impVars>>

\* lines 17-18; ply['vertex'] raises KeyError when the file has no such element
PrintDtype ==
    /\ ipc = "dtype"
    /\ IF plyfile.kind = "novertex"
          THEN /\ stdout' = stdout \o << [kind |-> "banner"] >>
               /\ error' = "KeyError" /\ exitcode' = 1 /\ ipc' = "exited"
          ELSE /\ stdout' = stdout \o << [kind |-> "banner"], [kind |-> "dtype"] >>
               /\ ipc' = "first"
               /\ UNCHANGED <<error, exitcode>>
    /\ UNCHANGED <<argv, plyfile, num_line, ply, it, impVars>>

\* line 21
PrintFirst ==
    /\ ipc = "first"
    /\ stdout' = stdout \o << [kind |-> "banner"] >>
    /\ ipc' = "loop"
    /\ UNCHANGED <<argv, plyfile, num_line, ply, it, exitcode, error, impVars>>

\* lines 22-23: one iteration of the for loop, or its end and the script's
LoopStep ==
    /\ ipc = "loop"
    /\ LET items == slice_to(ply, num_line)
       IN  IF it < Len(items)
              THEN /\ stdout' = stdout \o << [kind |-> "record", v |-> items[it + 1]] >>
                   /\ it' = it + 1
                   /\ UNCHANGED <<ipc, exitcode>>
              ELSE /\ ipc' = "exited"
                   /\ exitcode' = 0
                   /\ UNCHANGED <<stdout, it>>
    /\ UNCHANGED <<argv, plyfile, num_line, ply, error, impVars>>

InspNext == \/ ArgCheck \/ ParseArgs \/ ReadPly \/ PrintDtype \/ PrintFirst
            \/ LoopStep

InspSpec == InspInit /\ [][InspNext]_vars


\* ================================================================ claims
\* ---- what the claims speak of, stated on the file's bytes ----

\* l is the token b'end_header' between runs of whitespace
SentinelText(l) ==
    \E i \in 0..(Len(l) - 10) :
        /\ SubSeq(l, i + 1, i + 10) = end_header
        /\ \A j \in 1..i : l[j] \in Whitespace
        /\ \A j \in (i + 11)..Len(l) : l[j] \in Whitespace

\* [s+1 .. e] is a line of f: it starts the file or follows a newline, holds
\* no newline before e, and ends with a newline or with the file
LineStarts(f) == {s \in 0..(Len(f) - 1) : s = 0 \/ f[s] = 10}
LineEnds(f)   == {e \in 1..Len(f) : f[e] = 10 \/ e = Len(f)}

IsLine(f, s, e) == s < e /\ \A j \in (s + 1)..(e - 1) : f[j] # 10

SentinelEnds(f) ==
    {e \in LineEnds(f) :
        \E s \in LineStarts(f) : IsLine(f, s, e) /\ SentinelText(SubSeq(f, s + 1, e))}

HasSentinel(f) == SentinelEnds(f) # {}

\* the offset right after the first sentinel line
FirstSentinelEnd(f) == Min(SentinelEnds(f))

\* a header followed by a whole number of 27-byte records
ValidFile(f) ==
    /\ f.exists
    /\ HasSentinel(f.bytes)
    /\ (Len(f.bytes) - FirstSentinelEnd(f.bytes)) % 27 = 0

Scanned == pc \in {"open2", "fromfile", "print", "mesh", "attrs", "done"}
              \/ (pc = "failed" /\ error = "IndexError")

Parsed  == pc \in {"print", "mesh", "attrs", "done"}
              \/ (pc = "failed" /\ error = "IndexError")

\* the bytes of a binary32, low byte first
EncF32LE(v) == << v.m % 256, (v.m \div 256) % 256,
                  (v.e % 2) * 128 + v.m \div 65536, v.s * 128 + v.e \div 2 >>

\* the k bytes at offset o of record i (1-based) of the data region at H
RecordBytes(f, H, i, o, k) ==
    SubSeq(f, H + 27 * (i - 1) + o + 1, H + 27 * (i - 1) + o + k)

\* C1: on a file with no sentinel line the header scan terminates and the run
\* ends in a failure (it does not loop forever at end of file).
C1_ScanTerminates ==
    [](((pc = "scan_test") /\ ~HasSentinel(file.bytes)) => <>(pc = "failed"))

\* C2: a file whose byte count after the header is not a multiple of 27 is
\* rejected: no run completes on it with the trailing bytes dropped, so a
\* completed run accounts for every byte after the header.
C2_MisalignedRejected ==
    pc = "done" => Len(data) * 27 + header_end = Len(file.bytes)

\* C3: for a file that holds a sentinel line, the scanner's offset is the one
\* right after the first line whose stripped content is end_header, whatever
\* bytes follow.
C3_HeaderEnd ==
    (Scanned /\ HasSentinel(file.bytes)) => header_end = FirstSentinelEnd(file.bytes)

C3_Witness ==
    /\ pc = "open2"
    /\ header_end = Len(ply_line \o format_line \o sentinel_line)
    /\ SubSeq(file.bytes, 1, header_end) = ply_line \o format_line \o sentinel_line
    /\ Len(file.bytes) = header_end + 2 * 27

\* C4: on a valid file parsing yields n = (size - H) / 27 records with
\* n * 27 + H = size, and record i is the 27 bytes at H + 27 * (i - 1) read as
\* x, y, z (4 bytes each), red, green, blue (1 each), vx, vy, vz (4 each).
C4_RecordsDecoded ==
    (Parsed /\ ValidFile(file)) =>
        LET H == FirstSentinelEnd(file.bytes)
            B(i, o, k) == RecordBytes(file.bytes, H, i, o, k)
        IN  /\ Len(data) * 27 + H = Len(file.bytes)
            /\ \A i \in 1..Len(data) :
                  /\ EncF32LE(data[i].x)  = B(i, 0, 4)
                  /\ EncF32LE(data[i].y)  = B(i, 4, 4)
                  /\ EncF32LE(data[i].z)  = B(i, 8, 4)
                  /\ <<data[i].red>>      = B(i, 12, 1)
                  /\ <<data[i].green>>    = B(i, 13, 1)
                  /\ <<data[i].blue>>     = B(i, 14, 1)
                  /\ EncF32LE(data[i].vx) = B(i, 15, 4)
                  /\ EncF32LE(data[i].vy) = B(i, 19, 4)
                  /\ EncF32LE(data[i].vz) = B(i, 23, 4)

\* two different records parsed from a valid file, the first being
\* 1.0, -2.0, 0.5 | 0, 255, 128 | 0.25, -1.0, 3.0
C4_Witness ==
    /\ pc = "print" /\ ValidFile(file)
    /\ Len(data) = 2 /\ data[1] # data[2]
    /\ data[1].x = F32One
    /\ data[1].y = [s |-> 1, e |-> 128, m |-> 0]
    /\ data[1].blue = 128
    /\ data[1].vz = [s |-> 0, e |-> 128, m |-> 4194304]


\* ---- the host object the importer is to leave behind ----
PointClouds == Named(objects, "PointCloud")

AttrsNamed(o, nm) == {a \in o.data.attrs : a.name = nm}

\* the values of o's only attribute named nm
AttrValues(o, nm) == (CHOOSE a \in AttrsNamed(o, nm) : TRUE).values

\* o is a point-only mesh of the n records of f's data region at H: n
\* vertices, no edges, no faces, and exactly the attributes color, vx, vy, vz,
\* each of length n with element i taken from record i
PointCloudOf(o, f, H, n) ==
    /\ Len(o.data.verts) = n
    /\ o.data.edges = <<>> /\ o.data.faces = <<>>
    /\ {a.name : a \in o.data.attrs} = {"color", "vx", "vy", "vz"}
    /\ Cardinality(o.data.attrs) = 4
    /\ \A a \in o.data.attrs : Len(a.values) = n /\ a.domain = "POINT"
    /\ \A i \in 1..n :
          /\ EncF32LE(o.data.verts[i][1]) = RecordBytes(f, H, i, 0, 4)
          /\ EncF32LE(o.data.verts[i][2]) = RecordBytes(f, H, i, 4, 4)
          /\ EncF32LE(o.data.verts[i][3]) = RecordBytes(f, H, i, 8, 4)
          /\ Len(AttrValues(o, "color")[i]) = 4
          /\ AttrValues(o, "color")[i][1] = fdiv32(RecordBytes(f, H, i, 12, 1)[1], 255)
          /\ AttrValues(o, "color")[i][2] = fdiv32(RecordBytes(f, H, i, 13, 1)[1], 255)
          /\ AttrValues(o, "color")[i][3] = fdiv32(RecordBytes(f, H, i, 14, 1)[1], 255)
          /\ EncF32LE(AttrValues(o, "vx")[i]) = RecordBytes(f, H, i, 15, 4)
          /\ EncF32LE(AttrValues(o, "vy")[i]) = RecordBytes(f, H, i, 19, 4)
          /\ EncF32LE(AttrValues(o, "vz")[i]) = RecordBytes(f, H, i, 23, 4)

\* C5: for every valid file with n records, n = 0 included, the importer run
\* completes with one object named PointCloud whose mesh has n vertices, no
\* edges, no faces and the attributes color, vx, vy, vz, each of length n and
\* index-aligned to the records.
C5_ValidFileImported ==
    (ValidFile(file) /\ pc \in {"done", "failed"}) =>
        /\ pc = "done"
        /\ Cardinality(PointClouds) = 1
        /\ \A o \in PointClouds :
              LET H == FirstSentinelEnd(file.bytes)
              IN  PointCloudOf(o, file.bytes, H, (Len(file.bytes) - H) \div 27)

\* what remains of C5 once the empty file is set aside: every completed run
\* on a valid file leaves the PointCloud described, and a run on a valid file
\* fails only when the file holds no record
C5_NonEmptyImported ==
    (ValidFile(file) /\ pc \in {"done", "failed"}) =>
        LET H == FirstSentinelEnd(file.bytes)
            n == (Len(file.bytes) - H) \div 27
        IN  IF n = 0
               THEN pc = "failed" /\ error = "IndexError" /\ PointClouds = {}
               ELSE /\ pc = "done"
                    /\ Cardinality(PointClouds) = 1
                    /\ \A o \in PointClouds : PointCloudOf(o, file.bytes, H, n)

\* C8: in every terminal state of a run (completed or failed) no file handle
\* is open.
C8_HandlesClosed ==
    pc \in {"done", "failed"} => handles = {}

\* a completed run, which opened and read the file twice
C8_Witness ==
    pc = "done" /\ handles = {} /\ header_end > 0 /\ Len(data) > 0

\* ---- binary32 values against exact quotients ----
\* v lies in [0, 1]
InUnit(v) == v.s = 0 /\ (v.e < 127 \/ (v.e = 127 /\ v.m = 0))

\* v is a binary32 nearest to c / d, for 0 < c <= d < 2^8 : with
\* M = 2^23 + v.m and k = 150 - v.e, 2 * |M * d - c * 2^k| <= d.  The
\* products are taken on M's high 16 and low 8 bits to stay within 32 bits.
NearestTo(v, c, d) ==
    LET mant == 8388608 + v.m
        k    == 150 - v.e
        hi   == (mant \div 256) * d - c * 2^(k - 8)
        diff == 256 * hi + (mant % 256) * d
    IN  /\ v.s = 0 /\ v.e >= 1 /\ k >= 23 /\ k <= 31
        /\ hi \in -256..256
        /\ 2 * diff <= d /\ -2 * diff <= d

\* every channel value 0..255, and three quotients as numpy rounds them
ChannelsExact ==
    /\ normalize(0) = F32Zero
    /\ normalize(255) = F32One
    /\ \A c \in 1..255 : NearestTo(normalize(c), c, 255) /\ InUnit(normalize(c))
    /\ normalize(1)   = [s |-> 0, e |-> 119, m |-> 32897]
    /\ normalize(128) = [s |-> 0, e |-> 126, m |-> 32897]
    /\ normalize(254) = [s |-> 0, e |-> 126, m |-> 8322815]

\* C9: each color element is (red/255, green/255, blue/255, 1.0): every
\* channel c in 0..255 maps to the binary32 nearest to c/255, channel 0 to 0.0
\* and channel 255 to 1.0 exactly, every component lies in [0, 1], and the
\* fourth component is 1.0.
C9_ColorDerivation ==
    pc = "done" =>
        /\ \A o \in PointClouds :
              \A i \in 1..Len(data) :
                  AttrValues(o, "color")[i] =
                      << normalize(data[i].red), normalize(data[i].green),
                         normalize(data[i].blue), F32One >>
        /\ ChannelsExact

\* a completed run whose first record has the channels 0, 255, 128
C9_Witness ==
    /\ pc = "done"
    /\ data[1].red = 0 /\ data[1].green = 255 /\ data[1].blue = 128
    /\ \E o \in PointClouds :
          AttrValues(o, "color")[1] =
              << F32Zero, F32One, [s |-> 0, e |-> 126, m |-> 32897], F32One >>

\* C10: the scene never holds more than one object named PointCloud; it holds
\* none from the removal until the file has been read and parsed, none after
\* a failed run, and exactly one, the one this run created from its data,
\* after a completed run.
C10_OnePointCloud ==
    /\ Cardinality(PointClouds) <= 1
    /\ pc \in {"open1", "scan_test", "scan_read", "tell", "open2", "fromfile",
               "print", "mesh", "failed"} => PointClouds = {}
    /\ handles # {} => PointClouds = {}
    /\ pc = "done" =>
          /\ Cardinality(PointClouds) = 1
          /\ \A o \in PointClouds :
                o.name = obj /\ o.linked /\ o.data.verts = positions(data)

\* a second run that failed after an earlier PointCloud had been created
C10_Witness ==
    /\ runs = 2 /\ pc = "failed"
    /\ Name("PointCloudMesh", 0) \in meshes
    /\ PointClouds = {}

\* ---- inspector ----
RecordLines == SelectSeq(stdout, LAMBDA l : l.kind = "record")
DtypeLines  == SelectSeq(stdout, LAMBDA l : l.kind = "dtype")

\* the count the command line asks for, read off the argument's text
RequestedCount ==
    IF Len(argv) = 2 THEN 5
    ELSE CASE argv[3] = <<"2">>      -> 2
           [] argv[3] = <<"7">>      -> 7
           [] argv[3] = <<"1", "2">> -> 12
           [] argv[3] = <<"+", "3">> -> 3
           [] OTHER                  -> 0

\* C6: with N a positive integer (5 when omitted) and a file of n records,
\* the inspector prints one field-layout line and then exactly min(N, n)
\* record lines, the first records of the file in file order.
C6_FirstRecords ==
    (ipc = "exited" /\ exitcode = 0 /\ RequestedCount > 0) =>
        LET n == Len(plyfile.vertex)
            k == IF RequestedCount < n THEN RequestedCount ELSE n
        IN  /\ Len(DtypeLines) = 1
            /\ Len(RecordLines) = k
            /\ \A i \in 1..k : RecordLines[i].v = plyfile.vertex[i]
            /\ \E j \in 1..Len(stdout) :
                  /\ stdout[j].kind = "dtype"
                  /\ \A i \in 1..Len(stdout) : stdout[i].kind = "record" => i > j

\* `<file> 2` on a file of 10 records listed in descending order: 2 record lines
C6_Witness ==
    /\ ipc = "exited" /\ exitcode = 0
    /\ Len(argv) = 3 /\ argv[3] = <<"2">>
    /\ Len(plyfile.vertex) = 10 /\ plyfile.vertex[1] > plyfile.vertex[2]
    /\ Len(RecordLines) = 2

\* C7: without a filename argument the inspector prints the usage message and
\* exits with a non-zero status, before reading any file and before printing
\* any record line.
C7_UsageExit ==
    Len(argv) < 2 =>
        /\ ipc \in {"argcheck", "exited"}
        /\ ipc = "argcheck" => stdout = <<>>
        /\ ipc = "exited" =>
              /\ stdout = << [kind |-> "usage"] >>
              /\ exitcode # 0
              /\ error = None
        /\ ply = <<>>

C7_Witness ==
    /\ Len(argv) = 1 /\ ipc = "exited" /\ exitcode = 1
    /\ stdout = << [kind |-> "usage"] >>

====
